---- MODULE Spec2Model ----
(***************************************************************************)
(* Sharding propagation registry of torch/distributed/_tensor/prop.py:     *)
(* ShardingPropagator (op_to_rules) and _CachingPropagator                 *)
(* (op_to_rules + cached_prop_results).  The main object is a              *)
(* _CachingPropagator; ShardingPropagator.propagate_op_sharding is the     *)
(* inherited method called on the same op_to_rules table, which is what a  *)
(* non-caching registry holding the same table computes.  SpecShared adds  *)
(* a second registry constructed with or without the first one's table,    *)
(* SpecConcurrent runs the caching propagate statement by statement in two *)
(* threads.                                                                *)
(***************************************************************************)
EXTENDS Integers, Sequences, FiniteSets, TLC

VARIABLES op_to_rules, cached_prop_results, call, ret, invoked,
          num_invocations, first_success, phase, binding,
          last_registered, rule_calls, peer, threads

vars == <<op_to_rules, cached_prop_results, call, ret, invoked,
          num_invocations, first_success, phase, binding,
          last_registered, rule_calls, peer, threads>>

\* Cap on the number of rule invocations explored in one behaviour.
MaxInvocations == 3

(***************************************************************************)
(* Optional values (Python's None / a value).                              *)
(***************************************************************************)
None == <<>>

Some(x) == <<x>>

\* Dict helpers: a Python dict is a function whose DOMAIN is its key set.
EmptyDict == <<>>

DictSet(d, k, v) == [x \in (DOMAIN d) \cup {k} |-> IF x = k THEN v ELSE d[x]]

DictGet(d, k) == IF k \in DOMAIN d THEN Some(d[k]) ELSE None

(***************************************************************************)
(* Inputs: operator identities, input schemas, propagation rules.          *)
(***************************************************************************)
OpOverloads == {"aten.add", "aten.mul"}

\* An OpSchema is a value: the operator it was built for and the placements
\* of its inputs.  Equality and hash are structural.
Schema(f, a) == [func |-> f, args_schema |-> a]

OpSchemas ==
    { Schema("aten.add", <<"Replicate", "Replicate">>),
      Schema("aten.add", <<"Shard0", "Replicate">>),
      Schema("aten.add", <<"Shard0", "Shard0">>),
      Schema("aten.mul", <<"Replicate", "Replicate">>) }

\* The three fields of OutputSharding that the propagator reads.
OutputSharding(spec, sugg, reason) ==
    [output_spec |-> spec, schema_suggestions |-> sugg, failed_reason |-> reason]

Returns(v) == [kind |-> "return", value |-> Some(v), exc |-> None]

Raises(e) == [kind |-> "raise", value |-> None, exc |-> Some(e)]

NoCall == [kind |-> "none", value |-> None, exc |-> None]

Exc(type, op, schema, detail) ==
    [type |-> type, op |-> op, schema |-> schema, detail |-> detail]

\* Rules are pure functions OpSchema -> OutputSharding supplied by callers.
\* pointwise_rule: resolves equal placements, otherwise suggests resharding.
pointwise_rule(s) ==
    IF s.args_schema[1] = s.args_schema[2]
    THEN Returns(OutputSharding(Some(s.args_schema[1]), None, None))
    ELSE Returns(OutputSharding(None,
                   Some(<<Schema(s.func, <<s.args_schema[1], s.args_schema[1]>>)>>),
                   None))

\* strict_rule: a second implementation with every other result shape.
strict_rule(s) ==
    IF s.func = "aten.mul"
    THEN Returns(OutputSharding(None, Some(<<>>), None))
    ELSE IF s.args_schema = <<"Shard0", "Shard0">>
    THEN Returns(OutputSharding(Some("Replicate"), None, None))
    ELSE IF s.args_schema = <<"Shard0", "Replicate">>
    THEN Raises(Exc("ValueError", None, None, "mixed placements"))
    ELSE Returns(OutputSharding(None, None, Some("replicated inputs unsupported")))

RuleFuncs == {"pointwise_rule", "strict_rule"}

CallRule(rule_func, s) ==
    IF rule_func = "pointwise_rule" THEN pointwise_rule(s) ELSE strict_rule(s)

(***************************************************************************)
(* Name resolution of the f-strings in propagate_op_sharding.              *)
(***************************************************************************)
ModuleGlobals ==
    {"Callable", "Dict", "OpOverload", "OpSchema", "OutputSharding",
     "ShardingPropagator", "_CachingPropagator"}

ParamLocals == {"self", "op_overload", "op_schema", "sharding_prop_func"}

Unbound(names, locals) == names \ (locals \cup ModuleGlobals)

NameError(names, locals) ==
    Exc("NameError", None, None, CHOOSE n \in Unbound(names, locals) : TRUE)

NoRuleMessageNames == {"op_overload"}

RuleFailedMessageNames == {"op_key", "op_schema", "e"}

UnsatisfiableMessageNames == {"op_key", "op_schema", "output_sharding"}

(***************************************************************************)
(* ShardingPropagator.propagate_op_sharding                                *)
(***************************************************************************)
Outcome(r, inv) == [ret |-> r, invoked |-> inv]

\* step 1: no rule registered
RaiseNoRule_fallback(op_overload) ==
    Returns(OutputSharding(Some("Replicate"), None, None))

RaiseNoRule(op_overload) ==
    IF Unbound(NoRuleMessageNames, ParamLocals) # {}
    THEN Raises(NameError(NoRuleMessageNames, ParamLocals))
    ELSE Raises(Exc("NotImplementedError", Some(op_overload), None, "no rule registered"))

\* step 2: except Exception as e: raise RuntimeError(f"... {op_key} ...") from e
RaiseRuleFailed(op_overload, op_schema, e) ==
    IF Unbound(RuleFailedMessageNames, ParamLocals \cup {"e"}) # {}
    THEN Raises(NameError(RuleFailedMessageNames, ParamLocals \cup {"e"}))
    ELSE Raises(Exc("RuntimeError", Some(op_overload), Some(op_schema), e.detail))

\* step 3: both output_spec and schema_suggestions are None
RaiseUnsatisfiable(op_overload, op_schema, output_sharding) ==
    IF Unbound(UnsatisfiableMessageNames, ParamLocals \cup {"output_sharding"}) # {}
    THEN Raises(NameError(UnsatisfiableMessageNames, ParamLocals \cup {"output_sharding"}))
    ELSE Raises(Exc("RuntimeError", Some(op_overload), Some(op_schema),
                    output_sharding.failed_reason[1]))

InterpretResult_or(op_overload, op_schema, output_sharding) ==
    IF output_sharding.output_spec = None \/ output_sharding.schema_suggestions = None
    THEN RaiseUnsatisfiable(op_overload, op_schema, output_sharding)
    ELSE Returns(output_sharding)

InterpretResult_noraise(op_overload, op_schema, output_sharding) ==
    Returns(output_sharding)

InterpretResult(op_overload, op_schema, output_sharding) ==
    IF output_sharding.output_spec = None /\ output_sharding.schema_suggestions = None
    THEN RaiseUnsatisfiable(op_overload, op_schema, output_sharding)
    ELSE Returns(output_sharding)

PropagateOpSharding(rules, op_overload, op_schema) ==
    LET sharding_prop_func == DictGet(rules, op_overload) IN
    IF sharding_prop_func = None
    THEN Outcome(RaiseNoRule(op_overload), <<>>)
    ELSE LET r == CallRule(sharding_prop_func[1], op_schema)
             inv == <<[rule |-> sharding_prop_func[1], schema |-> op_schema]>>
         IN IF r.kind = "raise"
            THEN Outcome(RaiseRuleFailed(op_overload, op_schema, r.exc[1]), inv)
            ELSE Outcome(InterpretResult(op_overload, op_schema, r.value[1]), inv)

(***************************************************************************)
(* _CachingPropagator.propagate_op_sharding                                *)
(***************************************************************************)
\* `op_schema in self.cached_prop_results` / `self.cached_prop_results[op_schema]`
CacheLookup_never(cache, op_schema) == None

CacheLookup_argsonly(cache, op_schema) ==
    IF \E k \in DOMAIN cache : k.args_schema = op_schema.args_schema
    THEN Some(cache[CHOOSE k \in DOMAIN cache : k.args_schema = op_schema.args_schema])
    ELSE None

CacheLookup(cache, op_schema) == DictGet(cache, op_schema)

\* `self.cached_prop_results[op_schema] = output_sharding`
CacheStore_byfunc(cache, op_schema, output_sharding) ==
    [k \in (DOMAIN cache) \cup {x \in OpSchemas : x.func = op_schema.func} |->
        IF k.func = op_schema.func THEN output_sharding ELSE cache[k]]

CacheStore_evict(cache, op_schema, output_sharding) ==
    [k \in {op_schema} |-> output_sharding]

CacheStore(cache, op_schema, output_sharding) == DictSet(cache, op_schema, output_sharding)

\* result: the outcome of the call and the cache table after it
CachingPropagateOpSharding_cachefail(rules, cache, op_overload, op_schema) ==
    LET hit == CacheLookup(cache, op_schema) IN
    IF hit # None
    THEN [out |-> Outcome(Returns(hit[1]), <<>>), cache |-> cache]
    ELSE LET o == PropagateOpSharding(rules, op_overload, op_schema) IN
         IF o.ret.kind = "raise"
         THEN [out |-> o,
               cache |-> CacheStore(cache, op_schema,
                                    OutputSharding(None, None, Some(o.ret.exc[1].type)))]
         ELSE [out |-> o, cache |-> CacheStore(cache, op_schema, o.ret.value[1])]

CachingPropagateOpSharding_nostore(rules, cache, op_overload, op_schema) ==
    LET hit == CacheLookup(cache, op_schema) IN
    IF hit # None
    THEN [out |-> Outcome(Returns(hit[1]), <<>>), cache |-> cache]
    ELSE [out |-> PropagateOpSharding(rules, op_overload, op_schema), cache |-> cache]

CachingPropagateOpSharding(rules, cache, op_overload, op_schema) ==
    LET hit == CacheLookup(cache, op_schema) IN
    IF hit # None
    THEN [out |-> Outcome(Returns(hit[1]), <<>>), cache |-> cache]
    ELSE LET o == PropagateOpSharding(rules, op_overload, op_schema) IN
         IF o.ret.kind = "raise"
         THEN [out |-> o, cache |-> cache]
         ELSE [out |-> o, cache |-> CacheStore(cache, op_schema, o.ret.value[1])]

(***************************************************************************)
(* State machine                                                           *)
(***************************************************************************)
CallRec(m, op, s, rule) == [method |-> m, op_overload |-> op, op_schema |-> s, rule_func |-> rule]

\* A second _CachingPropagator, constructed later, possibly from this object's
\* op_to_rules dict.  rules_ref says which dict its op_to_rules attribute
\* refers to: its own fresh dict ("own") or the dict it was given ("shared").
NoPeer ==
    [live |-> FALSE, given |-> None, registered |-> FALSE, rules_ref |-> "own",
     own_rules |-> EmptyDict, cached_prop_results |-> EmptyDict]

\* _CachingPropagator.__init__(op_to_rules): arg is None or Some(reference)
CachingPropagatorInit_copy(arg, given_table) ==
    IF arg # None
    THEN [rules_ref |-> "own", own_rules |-> given_table, cached_prop_results |-> EmptyDict]
    ELSE [rules_ref |-> "own", own_rules |-> EmptyDict, cached_prop_results |-> EmptyDict]

CachingPropagatorInit(arg, given_table) ==
    IF arg # None
    THEN [rules_ref |-> arg[1], own_rules |-> EmptyDict, cached_prop_results |-> EmptyDict]
    ELSE [rules_ref |-> "own", own_rules |-> EmptyDict, cached_prop_results |-> EmptyDict]

\* Callers' threads inside _CachingPropagator.propagate_op_sharding; pc is the
\* statement the thread executes next, output_sharding its local variable.
Threads == {"t1", "t2"}

IdleThread ==
    [pc |-> "idle", op_overload |-> None, op_schema |-> None, missed |-> FALSE,
     output_sharding |-> None, out |-> NoCall]

InitObject ==
    /\ op_to_rules = EmptyDict
    /\ cached_prop_results = EmptyDict
    /\ call = CallRec("__init__", None, None, None)
    /\ ret = NoCall
    /\ invoked = <<>>
    /\ num_invocations = 0
    /\ first_success = EmptyDict
    /\ phase = "setup"
    /\ last_registered = EmptyDict
    /\ rule_calls = EmptyDict
    /\ peer = NoPeer
    /\ threads = [t \in Threads |-> IdleThread]

Init ==
    /\ InitObject
    /\ binding = [s \in OpSchemas |-> s.func]

\* `self.op_to_rules[op_overload] = rule_func`
RegisterShardingPropRule_keepfirst(rules, op_overload, rule_func) ==
    IF op_overload \in DOMAIN rules THEN rules ELSE DictSet(rules, op_overload, rule_func)

RegisterShardingPropRule(rules, op_overload, rule_func) ==
    DictSet(rules, op_overload, rule_func)

\* ShardingPropagator.register_sharding_prop_rule
\* (last_registered: the rule most recently passed to register, per identity;
\*  rule_calls: how often the caching propagate has run a rule, per schema)
Register_invalidate(op_overload, rule_func) ==
    /\ op_to_rules' = RegisterShardingPropRule(op_to_rules, op_overload, rule_func)
    /\ call' = CallRec("register_sharding_prop_rule", Some(op_overload), None, Some(rule_func))
    /\ ret' = NoCall
    /\ invoked' = <<>>
    /\ cached_prop_results' = EmptyDict
    /\ last_registered' = [x \in (DOMAIN last_registered) \cup {op_overload} |->
                              IF x = op_overload THEN rule_func ELSE last_registered[x]]
    /\ UNCHANGED <<threads, num_invocations, first_success, phase, binding, rule_calls, peer>>

Register(op_overload, rule_func) ==
    /\ op_to_rules' = RegisterShardingPropRule(op_to_rules, op_overload, rule_func)
    /\ call' = CallRec("register_sharding_prop_rule", Some(op_overload), None, Some(rule_func))
    /\ ret' = NoCall
    /\ invoked' = <<>>
    /\ last_registered' = [x \in (DOMAIN last_registered) \cup {op_overload} |->
                              IF x = op_overload THEN rule_func ELSE last_registered[x]]
    /\ UNCHANGED <<threads, cached_prop_results, num_invocations, first_success, phase, binding,
                   rule_calls, peer>>

\* ShardingPropagator.propagate_op_sharding called on the object's table
Propagate(op_overload, op_schema) ==
    LET o == PropagateOpSharding(op_to_rules, op_overload, op_schema) IN
    /\ num_invocations + Len(o.invoked) <= MaxInvocations
    /\ call' = CallRec("ShardingPropagator.propagate_op_sharding",
                       Some(op_overload), Some(op_schema), None)
    /\ ret' = o.ret
    /\ invoked' = o.invoked
    /\ num_invocations' = num_invocations + Len(o.invoked)
    /\ phase' = "use"
    /\ UNCHANGED <<threads, op_to_rules, cached_prop_results, first_success, binding,
                   last_registered, rule_calls, peer>>

\* _CachingPropagator.propagate_op_sharding
CachingPropagate(op_overload, op_schema) ==
    LET c == CachingPropagateOpSharding(op_to_rules, cached_prop_results,
                                        op_overload, op_schema) IN
    /\ num_invocations + Len(c.out.invoked) <= MaxInvocations
    /\ call' = CallRec("_CachingPropagator.propagate_op_sharding",
                       Some(op_overload), Some(op_schema), None)
    /\ ret' = c.out.ret
    /\ invoked' = c.out.invoked
    /\ cached_prop_results' = c.cache
    /\ num_invocations' = num_invocations + Len(c.out.invoked)
    /\ first_success' =
          IF c.out.ret.kind = "return" /\ op_schema \notin DOMAIN first_success
          THEN DictSet(first_success, op_schema,
                       [result |-> c.out.ret.value[1], op_overload |-> op_overload,
                        rule_func |-> DictGet(op_to_rules, op_overload)])
          ELSE first_success
    /\ rule_calls' = IF c.out.invoked = <<>> THEN rule_calls
                     ELSE [k \in (DOMAIN rule_calls) \cup {op_schema} |->
                             IF k = op_schema
                             THEN (IF k \in DOMAIN rule_calls THEN rule_calls[k] ELSE 0) + 1
                             ELSE rule_calls[k]]
    /\ phase' = "use"
    /\ UNCHANGED <<threads, op_to_rules, binding, last_registered, peer>>

Next ==
    \/ \E op \in OpOverloads, r \in RuleFuncs : Register(op, r)
    \/ \E op \in OpOverloads, s \in OpSchemas : Propagate(op, s)
    \/ \E op \in OpOverloads, s \in OpSchemas : CachingPropagate(op, s)

Spec == Init /\ [][Next]_vars

(***************************************************************************)
(* Setup-then-use discipline: every registration precedes every            *)
(* propagation, and each schema is always passed with one identity         *)
(* (binding), chosen arbitrarily per schema.                               *)
(***************************************************************************)
InitSetupThenUse ==
    /\ InitObject
    /\ binding \in [OpSchemas -> OpOverloads]

SetupRegister(op_overload, rule_func) ==
    /\ phase = "setup"
    /\ Register(op_overload, rule_func)

UsePropagate(op_schema) == Propagate(binding[op_schema], op_schema)

UseCachingPropagate(op_schema) == CachingPropagate(binding[op_schema], op_schema)

NextSetupThenUse ==
    \/ \E op \in OpOverloads, r \in RuleFuncs : SetupRegister(op, r)
    \/ \E s \in OpSchemas : UsePropagate(s)
    \/ \E s \in OpSchemas : UseCachingPropagate(s)

SpecSetupThenUse == InitSetupThenUse /\ [][NextSetupThenUse]_vars

(***************************************************************************)
(* Two registries: the object above and a peer constructed with or without *)
(* the object's op_to_rules dict.                                          *)
(***************************************************************************)
PeerRules == IF peer.rules_ref = "shared" THEN op_to_rules ELSE peer.own_rules

\* peer = _CachingPropagator(arg), arg being None or this object's op_to_rules
PeerConstruct(arg) ==
    LET o == CachingPropagatorInit(arg, op_to_rules) IN
    /\ ~peer.live
    /\ peer' = [live |-> TRUE, given |-> arg, registered |-> FALSE,
                rules_ref |-> o.rules_ref, own_rules |-> o.own_rules,
                cached_prop_results |-> o.cached_prop_results]
    /\ call' = CallRec("peer.__init__", None, None, None)
    /\ ret' = NoCall
    /\ invoked' = <<>>
    /\ UNCHANGED <<threads, op_to_rules, cached_prop_results, num_invocations,
                   first_success, phase, binding, last_registered, rule_calls>>

\* peer.register_sharding_prop_rule: writes the dict peer.op_to_rules refers to
PeerRegister(op_overload, rule_func) ==
    /\ peer.live
    /\ IF peer.rules_ref = "shared"
       THEN /\ op_to_rules' = RegisterShardingPropRule(op_to_rules, op_overload, rule_func)
            /\ last_registered' = [x \in (DOMAIN last_registered) \cup {op_overload} |->
                                     IF x = op_overload THEN rule_func ELSE last_registered[x]]
            /\ peer' = [peer EXCEPT !.registered = TRUE]
       ELSE /\ UNCHANGED <<op_to_rules, last_registered>>
            /\ peer' = [peer EXCEPT
                          !.registered = TRUE,
                          !.own_rules = RegisterShardingPropRule(peer.own_rules,
                                                                 op_overload, rule_func)]
    /\ call' = CallRec("peer.register_sharding_prop_rule",
                       Some(op_overload), None, Some(rule_func))
    /\ ret' = NoCall
    /\ invoked' = <<>>
    /\ UNCHANGED <<threads, cached_prop_results, num_invocations,
                   first_success, phase, binding, rule_calls>>

\* peer.propagate_op_sharding
PeerCachingPropagate(op_overload, op_schema) ==
    LET c == CachingPropagateOpSharding(PeerRules, peer.cached_prop_results,
                                        op_overload, op_schema) IN
    /\ peer.live
    /\ num_invocations + Len(c.out.invoked) <= MaxInvocations
    /\ num_invocations' = num_invocations + Len(c.out.invoked)
    /\ peer' = [peer EXCEPT !.cached_prop_results = c.cache]
    /\ call' = CallRec("peer.propagate_op_sharding",
                       Some(op_overload), Some(op_schema), None)
    /\ ret' = c.out.ret
    /\ invoked' = c.out.invoked
    /\ phase' = "use"
    /\ UNCHANGED <<threads, op_to_rules, cached_prop_results,
                   first_success, binding, last_registered, rule_calls>>

\* schemas and identities used with two registries: each schema with the
\* identity it was built for
SharedSchemas == {s \in OpSchemas : s.args_schema = <<"Replicate", "Replicate">>}

NextShared ==
    \/ \E op \in OpOverloads, r \in RuleFuncs : Register(op, r)
    \/ \E s \in SharedSchemas : CachingPropagate(binding[s], s)
    \/ \E arg \in {None, Some("shared")} : PeerConstruct(arg)
    \/ \E op \in OpOverloads, r \in RuleFuncs : PeerRegister(op, r)
    \/ \E s \in SharedSchemas : PeerCachingPropagate(binding[s], s)

SpecShared == Init /\ [][NextShared]_vars

(***************************************************************************)
(* Concurrent callers.  Registration is finished before the first call;    *)
(* each thread runs the statements of lines 88-95 one at a time, and every *)
(* dict operation is atomic.                                               *)
(***************************************************************************)
ThreadCall(t, op_schema) ==
    /\ threads[t].pc = "idle"
    /\ threads' = [threads EXCEPT ![t] =
                     [pc |-> "check", op_overload |-> Some(binding[op_schema]),
                      op_schema |-> Some(op_schema), missed |-> FALSE,
                      output_sharding |-> None, out |-> NoCall]]
    /\ phase' = "use"
    /\ UNCHANGED <<op_to_rules, cached_prop_results, call, ret, invoked, num_invocations,
                   first_success, binding, last_registered, rule_calls, peer>>

\* line 88: if op_schema in self.cached_prop_results
ThreadCheck(t) ==
    /\ threads[t].pc = "check"
    /\ threads' = [threads EXCEPT ![t] =
                     IF threads[t].op_schema[1] \in DOMAIN cached_prop_results
                     THEN [@ EXCEPT !.pc = "read"]
                     ELSE [@ EXCEPT !.pc = "propagate", !.missed = TRUE]]
    /\ UNCHANGED <<op_to_rules, cached_prop_results, call, ret, invoked, num_invocations,
                   first_success, phase, binding, last_registered, rule_calls, peer>>

\* line 89: return self.cached_prop_results[op_schema]
ThreadRead(t) ==
    /\ threads[t].pc = "read"
    /\ threads' = [threads EXCEPT ![t] =
                     [@ EXCEPT !.pc = "done",
                               !.out = IF threads[t].op_schema[1] \in DOMAIN cached_prop_results
                                       THEN Returns(cached_prop_results[threads[t].op_schema[1]])
                                       ELSE Raises(Exc("KeyError", None, threads[t].op_schema,
                                                       "op_schema"))]]
    /\ UNCHANGED <<op_to_rules, cached_prop_results, call, ret, invoked, num_invocations,
                   first_success, phase, binding, last_registered, rule_calls, peer>>

\* line 92: output_sharding = super().propagate_op_sharding(op_overload, op_schema)
ThreadPropagate(t) ==
    LET o == PropagateOpSharding(op_to_rules, threads[t].op_overload[1],
                                 threads[t].op_schema[1]) IN
    /\ threads[t].pc = "propagate"
    /\ num_invocations + Len(o.invoked) <= MaxInvocations
    /\ num_invocations' = num_invocations + Len(o.invoked)
    /\ threads' = [threads EXCEPT ![t] =
                     IF o.ret.kind = "raise"
                     THEN [@ EXCEPT !.pc = "done", !.out = o.ret]
                     ELSE [@ EXCEPT !.pc = "store", !.output_sharding = o.ret.value]]
    /\ UNCHANGED <<op_to_rules, cached_prop_results, call, ret, invoked,
                   first_success, phase, binding, last_registered, rule_calls, peer>>

\* lines 94-95: self.cached_prop_results[op_schema] = output_sharding; return it
ThreadStore_rebuild(t) ==
    /\ threads[t].pc = "store"
    /\ cached_prop_results' = [k \in {threads[t].op_schema[1]} |->
                                 threads[t].output_sharding[1]]
    /\ threads' = [threads EXCEPT ![t] =
                     [@ EXCEPT !.pc = "done", !.out = Returns(threads[t].output_sharding[1])]]
    /\ UNCHANGED <<op_to_rules, call, ret, invoked, num_invocations,
                   first_success, phase, binding, last_registered, rule_calls, peer>>

ThreadStore(t) ==
    /\ threads[t].pc = "store"
    /\ cached_prop_results' = CacheStore(cached_prop_results, threads[t].op_schema[1],
                                         threads[t].output_sharding[1])
    /\ threads' = [threads EXCEPT ![t] =
                     [@ EXCEPT !.pc = "done", !.out = Returns(threads[t].output_sharding[1])]]
    /\ UNCHANGED <<op_to_rules, call, ret, invoked, num_invocations,
                   first_success, phase, binding, last_registered, rule_calls, peer>>

\* the caller takes the result; the thread may call again
ThreadFinish(t) ==
    /\ threads[t].pc = "done"
    /\ threads' = [threads EXCEPT ![t] = IdleThread]
    /\ UNCHANGED <<op_to_rules, cached_prop_results, call, ret, invoked, num_invocations,
                   first_success, phase, binding, last_registered, rule_calls, peer>>

NextConcurrent ==
    \/ \E op \in OpOverloads, r \in RuleFuncs : SetupRegister(op, r)
    \/ \E t \in Threads, s \in OpSchemas : ThreadCall(t, s)
    \/ \E t \in Threads : ThreadCheck(t)
    \/ \E t \in Threads : ThreadRead(t)
    \/ \E t \in Threads : ThreadPropagate(t)
    \/ \E t \in Threads : ThreadStore(t)
    \/ \E t \in Threads : ThreadFinish(t)

SpecConcurrent == Init /\ [][NextConcurrent]_vars

(***************************************************************************)
(* Shorthands over the record of the last call                             *)
(***************************************************************************)
IsPlain == call.method = "ShardingPropagator.propagate_op_sharding"

IsCaching == call.method = "_CachingPropagator.propagate_op_sharding"

IsPropagate == IsPlain \/ IsCaching

CallOp == call.op_overload[1]

CallSchema == call.op_schema[1]

Registered == IsPropagate /\ CallOp \in DOMAIN op_to_rules

\* what the rule registered for the call's identity does on the call's schema
RuleResult == CallRule(op_to_rules[CallOp], CallSchema)

IsSuccessValue(v) == v.output_spec # None \/ v.schema_suggestions # None

OneInvocation == <<[rule |-> op_to_rules[CallOp], schema |-> CallSchema]>>

CacheHitCall == IsCaching /\ ret.kind = "return" /\ invoked = <<>>

(***************************************************************************)
(* C1: on the non-caching propagate, when the registered rule returns a    *)
(* result whose output_spec or schema_suggestions is present, the rule is  *)
(* invoked on the schema exactly once and propagate returns exactly the    *)
(* rule's value, without raising.                                          *)
(***************************************************************************)
C1_SuccessPassesThrough ==
    (IsPlain /\ Registered /\ RuleResult.kind = "return"
       /\ IsSuccessValue(RuleResult.value[1]))
    => (invoked = OneInvocation /\ ret = Returns(RuleResult.value[1]))

C1_Witness ==
    /\ IsPlain /\ Registered
    /\ ret.kind = "return"
    /\ ret.value[1].output_spec = None
    /\ ret.value[1].schema_suggestions # None
    /\ ret.value[1].schema_suggestions[1] # <<>>

C3_RuleFailedIsRuntimeError ==
    (IsPlain /\ Registered /\ RuleResult.kind = "raise")
    => ret = Raises(Exc("RuntimeError", Some(CallOp), Some(CallSchema),
                        RuleResult.exc[1].detail))

(***************************************************************************)
(* C4: when the registered rule returns a result with output_spec and      *)
(* schema_suggestions both absent, propagate fails with the RuntimeError   *)
(* of step 3, carrying the identity, the schema and the failure reason.    *)
(***************************************************************************)
C4_UnsatisfiableIsRuntimeError ==
    (IsPlain /\ Registered /\ RuleResult.kind = "return"
       /\ ~IsSuccessValue(RuleResult.value[1]))
    => ret = Raises(Exc("RuntimeError", Some(CallOp), Some(CallSchema),
                        RuleResult.value[1].failed_reason[1]))

(***************************************************************************)
(* C5: caching idempotence.  Once a caching propagate for schema s has     *)
(* succeeded, every later caching propagate for an equal schema returns    *)
(* the value of that first success and invokes no rule.                    *)
(***************************************************************************)
C5_CachingIdempotence ==
    [][ (IsCaching' /\ call'.op_schema[1] \in DOMAIN first_success)
        => /\ ret' = Returns(first_success[call'.op_schema[1]].result)
           /\ invoked' = <<>>
           /\ num_invocations' = num_invocations ]_vars

\* a hit served after the rule that computed the entry has been replaced
C5_Witness ==
    /\ CacheHitCall
    /\ CallSchema \in DOMAIN first_success
    /\ ret.value[1] = first_success[CallSchema].result
    /\ first_success[CallSchema].op_overload = CallOp
    /\ DictGet(op_to_rules, CallOp) # first_success[CallSchema].rule_func

(***************************************************************************)
(* C6: failures are never cached.  A caching propagate that raises leaves  *)
(* cached_prop_results as it was, and an identical call right after it     *)
(* goes through the wrapped propagate again, invoking the registered rule. *)
(***************************************************************************)
C6_FailuresNeverCached ==
    [][ /\ (IsCaching' /\ ret'.kind = "raise")
           => /\ cached_prop_results' = cached_prop_results
              /\ call'.op_schema[1] \notin DOMAIN cached_prop_results'
        /\ (IsCaching /\ ret.kind = "raise" /\ call' = call)
           => /\ ret' = PropagateOpSharding(op_to_rules, CallOp, CallSchema).ret
              /\ invoked' = IF CallOp \in DOMAIN op_to_rules
                            THEN OneInvocation ELSE <<>>
              /\ num_invocations' = num_invocations + Len(invoked') ]_vars

\* a second failure of a registered rule (two invocations) with a cache
\* that still holds its earlier entry
C6_Witness ==
    /\ IsCaching /\ Registered
    /\ ret.kind = "raise"
    /\ invoked = OneInvocation
    /\ num_invocations >= 2
    /\ DOMAIN cached_prop_results # {}
    /\ CallSchema \notin DOMAIN cached_prop_results

(***************************************************************************)
(* C7: no stale results.  A cache hit returns exactly what a fresh,        *)
(* uncached propagation of the same call against the current op_to_rules   *)
(* would produce, also after a rule has been replaced.                     *)
(***************************************************************************)
C7_NoStaleResults ==
    CacheHitCall => ret = PropagateOpSharding(op_to_rules, CallOp, CallSchema).ret

(***************************************************************************)
(* C8: no cross-operator results.  A value returned by a caching           *)
(* propagate(identity, s) was computed by a rule registered under that     *)
(* same identity.                                                          *)
(***************************************************************************)
C8_NoCrossOperatorResults ==
    (IsCaching /\ ret.kind = "return")
    => /\ CallSchema \in DOMAIN first_success
       /\ ret.value[1] = first_success[CallSchema].result
       /\ first_success[CallSchema].op_overload = CallOp

(***************************************************************************)
(* C9: substitutability.  Under setup-then-use, with each schema always    *)
(* passed with the same identity, every caching propagate has the outcome  *)
(* (returned value or error) of the non-caching propagate on the same      *)
(* table for the same call.                                                *)
(***************************************************************************)
C9_Substitutable ==
    IsCaching => ret = PropagateOpSharding(op_to_rules, CallOp, CallSchema).ret

C9_Witness ==
    /\ CacheHitCall
    /\ Cardinality(DOMAIN cached_prop_results) >= 2
    /\ CallOp # CallSchema.func

(***************************************************************************)
(* C10: cache isolation.  A caching propagate for schema s touches only    *)
(* the entry keyed by s; a schema that is not a key is a miss that runs    *)
(* the rule on that schema whatever other entries exist; a schema equal to *)
(* a key is a hit returning that key's entry.                              *)
(***************************************************************************)
C10_CacheIsolation ==
    [][ IsCaching' =>
        LET s == call'.op_schema[1]
            op == call'.op_overload[1] IN
        /\ \A k \in OpSchemas \ {s} :
              /\ (k \in DOMAIN cached_prop_results') = (k \in DOMAIN cached_prop_results)
              /\ k \in DOMAIN cached_prop_results
                 => cached_prop_results'[k] = cached_prop_results[k]
        /\ s \notin DOMAIN cached_prop_results
           => /\ ret' = PropagateOpSharding(op_to_rules, op, s).ret
              /\ op \in DOMAIN op_to_rules
                 => invoked' = <<[rule |-> op_to_rules[op], schema |-> s]>>
              /\ ret'.kind = "return"
                 => /\ s \in DOMAIN cached_prop_results'
                    /\ cached_prop_results'[s] = ret'.value[1]
        /\ s \in DOMAIN cached_prop_results
           => /\ ret' = Returns(cached_prop_results[Schema(s.func, s.args_schema)])
              /\ invoked' = <<>> ]_vars

\* a miss on a schema that differs from a cached key only in args_schema
C10_Witness ==
    /\ IsCaching /\ Registered
    /\ ret.kind = "return"
    /\ invoked = OneInvocation
    /\ \E k \in DOMAIN cached_prop_results :
          /\ k # CallSchema
          /\ k.func = CallSchema.func
          /\ cached_prop_results[k] # cached_prop_results[CallSchema]

IsRegister == call.method = "register_sharding_prop_rule"

\* some cache entry was computed by a rule that has since been replaced
ReplacedRuleEntry(k) ==
    /\ k \in DOMAIN cached_prop_results
    /\ k \in DOMAIN first_success
    /\ first_success[k].rule_func # DictGet(op_to_rules, first_success[k].op_overload)

(***************************************************************************)
(* C11: last registration wins.  register never fails and overwrites;      *)
(* the non-caching propagate invokes only the rule most recently           *)
(* registered for its identity, and the rules of other identities are the  *)
(* ones last registered for them.                                          *)
(***************************************************************************)
C11_LastRegistrationWins ==
    /\ IsRegister => (ret = NoCall /\ op_to_rules[CallOp] = call.rule_func[1])
    /\ DOMAIN op_to_rules = DOMAIN last_registered
    /\ \A op \in DOMAIN last_registered : op_to_rules[op] = last_registered[op]
    /\ (IsPlain /\ CallOp \in DOMAIN last_registered)
       => invoked = <<[rule |-> last_registered[CallOp], schema |-> CallSchema]>>

\* a non-caching call on an identity whose rule was replaced after an earlier
\* rule for it had been used, with another identity registered as well
C11_Witness ==
    /\ IsPlain /\ Registered
    /\ invoked = OneInvocation
    /\ CallSchema \in DOMAIN first_success
    /\ first_success[CallSchema].op_overload = CallOp
    /\ first_success[CallSchema].rule_func # Some(op_to_rules[CallOp])
    /\ DOMAIN op_to_rules = OpOverloads

(***************************************************************************)
(* C13: cache entries persist.  Once a schema is a key of                  *)
(* cached_prop_results with value v, every later register or propagate     *)
(* leaves it a key with value v.                                           *)
(***************************************************************************)
C13_CacheEntriesPersist ==
    [][ \A k \in DOMAIN cached_prop_results :
           /\ k \in DOMAIN cached_prop_results'
           /\ cached_prop_results'[k] = cached_prop_results[k] ]_vars

\* a miss that stored a new entry while an entry of a replaced rule is kept
C13_Witness ==
    /\ IsCaching /\ ret.kind = "return" /\ invoked # <<>>
    /\ \E k \in DOMAIN cached_prop_results : k # CallSchema /\ ReplacedRuleEntry(k)

(***************************************************************************)
(* C14 (as stated): on a caching registry the wrapped rule is invoked at   *)
(* most once for each distinct schema, whatever the outcomes are.          *)
(***************************************************************************)
C14_AtMostOncePerSchema ==
    \A k \in DOMAIN rule_calls : rule_calls[k] <= 1

(***************************************************************************)
(* C14 (amended): a caching propagate invokes the rule at most once, on    *)
(* its own schema, and only for a schema for which no earlier call has     *)
(* succeeded; failed calls are invoked again.                              *)
(***************************************************************************)
C14_InvokedOnlyBeforeSuccess ==
    [][ (IsCaching' /\ invoked' # <<>>)
        => /\ Len(invoked') = 1
           /\ invoked'[1].schema = call'.op_schema[1]
           /\ call'.op_schema[1] \notin DOMAIN first_success
           /\ call'.op_schema[1] \notin DOMAIN cached_prop_results ]_vars

\* the rule ran twice on one schema: a failure, then the success now cached
C14_Witness ==
    /\ IsCaching /\ ret.kind = "return" /\ invoked # <<>>
    /\ CallSchema \in DOMAIN rule_calls
    /\ rule_calls[CallSchema] >= 2
    /\ CallSchema \in DOMAIN cached_prop_results

(***************************************************************************)
(* C15: the caching propagate with an identity absent from op_to_rules     *)
(* fails with NotImplementedError and returns no value, also when the      *)
(* schema is already a key of cached_prop_results.                         *)
(***************************************************************************)
C15_CachingNoRuleRegistered ==
    (IsCaching /\ CallOp \notin DOMAIN op_to_rules)
    => /\ ret.kind = "raise"
       /\ ret.exc[1].type = "NotImplementedError"
       /\ ret.value = None

(***************************************************************************)
(* C16: every value propagate returns as a success is Resolved             *)
(* (output_spec present) or carries a non-empty list of schema             *)
(* suggestions.                                                            *)
(***************************************************************************)
C16_SuccessIsUsable ==
    (IsPropagate /\ ret.kind = "return")
    => \/ ret.value[1].output_spec # None
       \/ /\ ret.value[1].schema_suggestions # None
          /\ ret.value[1].schema_suggestions[1] # <<>>

(***************************************************************************)
(* C18: frame of register.  A register call changes only the op_to_rules   *)
(* entry of its identity; every other entry and the whole                  *)
(* cached_prop_results are unchanged.                                      *)
(***************************************************************************)
C18_RegisterFrame ==
    [][ IsRegister' =>
        /\ cached_prop_results' = cached_prop_results
        /\ \A op \in OpOverloads \ {call'.op_overload[1]} :
              DictGet(op_to_rules', op) = DictGet(op_to_rules, op)
        /\ DictGet(op_to_rules', call'.op_overload[1]) = call'.rule_func ]_vars

\* a register that replaced the rule which computed a cached entry
C18_Witness ==
    /\ IsRegister
    /\ \E k \in DOMAIN cached_prop_results :
          /\ ReplacedRuleEntry(k)
          /\ first_success[k].op_overload = CallOp
    /\ DOMAIN op_to_rules = OpOverloads

(***************************************************************************)
(* C19: cache content.  Every stored value has output_spec or              *)
(* schema_suggestions present and is what the rule registered at the time  *)
(* returned for exactly the key schema; no Failed result is stored.        *)
(***************************************************************************)
C19_CacheContent ==
    \A k \in DOMAIN cached_prop_results :
       /\ IsSuccessValue(cached_prop_results[k])
       /\ k \in DOMAIN first_success
       /\ first_success[k].rule_func # None
       /\ first_success[k].rule_func[1] \in RuleFuncs
       /\ CallRule(first_success[k].rule_func[1], k) = Returns(cached_prop_results[k])

\* a cache holding a resolved entry and a suggestions-only entry, after a
\* failed call
C19_Witness ==
    /\ IsCaching /\ ret.kind = "raise" /\ invoked # <<>>
    /\ \E k \in DOMAIN cached_prop_results : cached_prop_results[k].output_spec # None
    /\ \E k \in DOMAIN cached_prop_results : cached_prop_results[k].output_spec = None

IsPeerPropagate == call.method = "peer.propagate_op_sharding"

IsPeerRegister == call.method = "peer.register_sharding_prop_rule"

IsNoRuleError == ret.kind = "raise" /\ ret.exc[1].type = "NotImplementedError"

(***************************************************************************)
(* C17: a caching registry constructed with a table adopts that very       *)
(* table: its propagate uses the rules in it without any register call on  *)
(* the new registry, its register is visible to the other registry holding *)
(* the table, and it has its own, initially empty cache.  Constructed      *)
(* without a table it has no rule, so propagate fails with                 *)
(* NotImplementedError until register is called on it.                     *)
(***************************************************************************)
C17_AdoptsGivenTable ==
    /\ [](/\ call.method = "peer.__init__" => peer.cached_prop_results = EmptyDict
          /\ (IsPeerPropagate /\ peer.given # None /\ ~(ret.kind = "return" /\ invoked = <<>>))
             => /\ ret = PropagateOpSharding(op_to_rules, CallOp, CallSchema).ret
                /\ invoked = PropagateOpSharding(op_to_rules, CallOp, CallSchema).invoked
          /\ (IsPeerRegister /\ peer.given # None)
             => DictGet(op_to_rules, CallOp) = call.rule_func
          /\ (IsPeerPropagate /\ peer.given = None /\ ~peer.registered)
             => (IsNoRuleError /\ invoked = <<>>)
          /\ (IsCaching /\ last_registered = EmptyDict)
             => (IsNoRuleError /\ invoked = <<>>))
    /\ [][ /\ IsPeerPropagate'
              => /\ cached_prop_results' = cached_prop_results
                 /\ (ret'.kind = "return" /\ invoked' = <<>>)
                    => call'.op_schema[1] \in DOMAIN peer.cached_prop_results
           /\ IsCaching'
              => /\ peer'.cached_prop_results = peer.cached_prop_results
                 /\ (ret'.kind = "return" /\ invoked' = <<>>)
                    => call'.op_schema[1] \in DOMAIN cached_prop_results ]_vars

\* the peer, given the table and never registered on, ran a rule of the table
\* on a schema that the first registry already holds in its own cache
C17_Witness ==
    /\ IsPeerPropagate
    /\ peer.given # None /\ ~peer.registered
    /\ ret.kind = "return" /\ invoked = OneInvocation
    /\ CallSchema \in DOMAIN cached_prop_results
    /\ cached_prop_results[CallSchema] # peer.cached_prop_results[CallSchema]

\* two threads that both found the same schema missing and have both finished
RacedOn(t1, t2) ==
    /\ t1 # t2
    /\ threads[t1].pc = "done" /\ threads[t2].pc = "done"
    /\ threads[t1].missed /\ threads[t2].missed
    /\ threads[t1].op_schema = threads[t2].op_schema
    /\ threads[t1].op_overload = threads[t2].op_overload

(***************************************************************************)
(* C12: concurrent misses are harmless.  When two threads both miss on the *)
(* same schema and their check, rule invocation and store interleave in    *)
(* any order, both return the same value, the cache then holds that value  *)
(* (the rule's value) under the schema, and no step of either thread adds, *)
(* removes or changes any other entry.                                     *)
(***************************************************************************)
C12_ConcurrentMissesHarmless ==
    /\ [](\A t1, t2 \in Threads :
            RacedOn(t1, t2)
            => /\ threads[t1].out = threads[t2].out
               /\ threads[t1].out.kind = "return"
                  => LET s == threads[t1].op_schema[1]
                         op == threads[t1].op_overload[1] IN
                     /\ s \in DOMAIN cached_prop_results
                     /\ Returns(cached_prop_results[s]) = threads[t1].out
                     /\ op \in DOMAIN op_to_rules
                     /\ CallRule(op_to_rules[op], s) = threads[t1].out)
    /\ [][ \A k \in OpSchemas :
              DictGet(cached_prop_results', k) # DictGet(cached_prop_results, k)
              => /\ k \notin DOMAIN cached_prop_results
                 /\ \E t \in Threads :
                       /\ threads[t].pc = "store"
                       /\ threads[t].op_schema = Some(k)
                       /\ threads'[t].pc = "done"
                       /\ DictGet(cached_prop_results', k) = threads[t].output_sharding ]_vars

\* both threads missed on one schema, both returned, and the cache holds an
\* older entry next to the raced one
C12_Witness ==
    /\ RacedOn("t1", "t2")
    /\ threads["t1"].out.kind = "return"
    /\ threads["t1"].op_schema[1] \in DOMAIN cached_prop_results
    /\ Cardinality(DOMAIN cached_prop_results) >= 2

====
